---------------------------- MODULE Spec2Model ----------------------------
(***************************************************************************)
(* A model of package esfo (blaineam/esfo): the descriptor bridge that     *)
(* routes every filesystem verb either to an installed FileSystemHandler   *)
(* or to the native os package, and the swiftFileMap bookkeeping that      *)
(* associates a native *os.File (keyed by f.Fd()) with the remote          *)
(* descriptor the handler issued.                                          *)
(*                                                                         *)
(* The model follows src/esfo.go lines 1-385 (the swiftFileMap variant).   *)
(* Each exported function is one action that executes the whole function   *)
(* body.  The handler and the os package are the environment: every value  *)
(* and error they return is chosen nondeterministically.                   *)
(*                                                                         *)
(* Spec      the verbs called one after the other, each one step           *)
(* ConcSpec  OpenFile, Close and Write called by concurrent goroutines,    *)
(*           one statement a step, with mapMutex                           *)
(* FairSpec  ConcSpec with fair scheduling and a starvation-free mutex     *)
(* MetaSpec  Stat and ReadDir applied to the values a handler may return   *)
(* CarrySpec the methods of the handles that carry their own descriptor    *)
(*           (wrappedFile, File), called one after the other               *)
(* RaceSpec  ConcSpec with SetFileSystemHandler called at any moment       *)
(***************************************************************************)
EXTENDS Naturals, Sequences, FiniteSets, TLC

(***************************************************************************)
(* Bounds of the model.                                                    *)
(***************************************************************************)
MaxHandles == 2     \* *os.File objects the program ever obtains
MaxRemote  == 2     \* remote descriptor values the handler hands out
MaxLen     == 2     \* length of a caller's read buffer
MaxCallers == 2     \* goroutines that call the package concurrently

(***************************************************************************)
(* Values.                                                                 *)
(***************************************************************************)
NoHandler   == "none"                 \* fileSystemHandler == nil
Handlers    == {"h1"}                 \* distinct FileSystemHandler values
Nil         == "nil"                  \* the nil error
HandlerErrs == {"hErr"}               \* errors a handler call may return
NativeErrs  == {"nErr"}               \* errors a native os call may return
ErrClosed   == "ErrClosed"            \* os.ErrClosed: native call on a closed *os.File
ErrNotImplemented == "ErrNotImplemented"  \* errors.New(...) of File.WriteAt
Paths       == {"a"}                  \* names passed by callers
TempNames   == {"t"}                  \* names chosen for temporary files
OldByte     == 0                      \* content of a caller's buffer before Read

HandleIds   == 1 .. MaxHandles
OsFds       == 1 .. MaxHandles        \* descriptor numbers: one per *os.File suffices
RemoteFds   == 1 .. MaxRemote
InvalidFd   == 0                      \* f.Fd() of a closed *os.File
Callers     == 1 .. MaxCallers
NoCaller    == 0                      \* mapMutex is unlocked
NilCallback == "nil"                  \* a callback variable that is not set

VARIABLES
    fileSystemHandler,   \* the package variable: NoHandler or a handler
    swiftFileMap,        \* f.Fd() -> wrappedFile{file, swiftFD, name}
    files,               \* the *os.File objects the program holds
    last,                \* the verb executed last: its backend calls and its results
    mapMutex,            \* the caller holding mapMutex, or NoCaller
    callers,             \* concurrent callers: where each is in its verb
    writeFileCallback    \* the package variable of the callback variant

vars == <<fileSystemHandler, swiftFileMap, files, last,
          mapMutex, callers, writeFileCallback>>

\* what a verb executed as one step leaves alone: it takes and releases
\* mapMutex within the step
seqFrame == <<mapMutex, callers, writeFileCallback>>

(***************************************************************************)
(* The native *os.File.                                                    *)
(***************************************************************************)
\* st, sysfd, name: the state of the *os.File.  The other fields record
\* its history: under, rfd: the handler installed when it was opened and
\* the remote descriptor that handler issued for it; closes: whether Close
\* has been called on it; remote: "open" from the moment the handler issued
\* the descriptor until the handler's Close is invoked with it, "closed"
\* from then on, "none" for a file opened without a handler
UnusedFile == [st |-> "unused", sysfd |-> InvalidFd, name |-> "",
               under |-> NoHandler, rfd |-> 0, closes |-> 0, remote |-> "none"]

\* f.Fd(): the descriptor number, or the invalid descriptor once closed
Fd(f) == IF f.st = "open" THEN f.sysfd ELSE InvalidFd

\* descriptor numbers not in use
FreeFds == OsFds \ {files[h].sysfd : h \in {x \in HandleIds : files[x].st = "open"}}

\* a native open that may return a descriptor number that is in use
NewFdInUse == CHOOSE k \in OsFds : \A x \in OsFds : k <= x

\* the descriptor number a native open returns: the lowest one not in use
NewFd == CHOOSE k \in FreeFds : \A x \in FreeFds : k <= x

UnusedHandles == {h \in HandleIds : files[h].st = "unused"}

\* the error of a native method call on f, given the error e the kernel
\* would report on an open file
NativeErr(f, e) == IF f.st = "open" THEN e ELSE ErrClosed

(***************************************************************************)
(* Backend calls, as recorded in last.calls.                               *)
(***************************************************************************)
HCall(hid, verb, fd, err) ==
    [to |-> "handler", hid |-> hid, verb |-> verb, fd |-> fd, err |-> err]
NCall(verb, fd, err) ==
    [to |-> "native", hid |-> "os", verb |-> verb, fd |-> fd, err |-> err]

\* last holds the verb that was called and has not yet returned to its
\* caller, or NoResult between two calls.
\* op: the verb; h: the *os.File it was called on or returned; pre: that
\* file as it was when the verb was called; tracked: whether f.Fd() had a
\* record then; calls: the backend calls made, in order; err: the error
\* returned; n, bufIn, ret, buf: the count Read returned, the caller's
\* buffer before, the bytes the backend returned, the buffer after; str:
\* the string Name returned
NoResult == [op |-> "idle", h |-> 0, pre |-> UnusedFile, tracked |-> FALSE,
             calls |-> << >>, err |-> Nil, n |-> 0,
             bufIn |-> << >>, ret |-> << >>, buf |-> << >>, str |-> ""]

Idle == last.op = "idle"

Result(op, h, pre, tracked, calls, err) ==
    [NoResult EXCEPT !.op = op, !.h = h, !.pre = pre, !.tracked = tracked,
                     !.calls = calls, !.err = err]

(***************************************************************************)
(* swiftFileMap and its three accessors.                                   *)
(***************************************************************************)
\* an insert that records the descriptor number of f as the remote one
addSwiftFileOwnFd(m, key, h, swiftFD, name) ==
    [k \in DOMAIN m \cup {key} |->
        IF k = key THEN [file |-> h, swiftFD |-> key, name |-> name]
                   ELSE m[k]]

addSwiftFile(m, key, h, swiftFD, name) ==
    [k \in DOMAIN m \cup {key} |->
        IF k = key THEN [file |-> h, swiftFD |-> swiftFD, name |-> name]
                   ELSE m[k]]

getSwiftFile(m, key) == key \in DOMAIN m

\* a delete that leaves the entry in place
removeSwiftFileKeep(m, key) == m

removeSwiftFile(m, key) == [k \in DOMAIN m \ {key} |-> m[k]]

\* a caller between two verbs.  pc: the statement the caller is at; op: the
\* verb it is in; h: the *os.File it passed or obtained; name: the path it
\* passed; swiftFD, file, ok: what getSwiftFile returned (wf.swiftFD,
\* wf.file, ok), or the descriptor the handler's open returned; err: the
\* error it holds; handler: the value of fileSystemHandler whose method it
\* invoked last; calls: the backend calls of the verb so far
IdleCaller == [pc |-> "idle", op |-> "none", h |-> 0, name |-> "",
               swiftFD |-> 0, file |-> 0, ok |-> FALSE, err |-> Nil,
               handler |-> NoHandler, calls |-> << >>]

Init ==
    /\ fileSystemHandler = NoHandler
    /\ swiftFileMap = [k \in {} |-> 0]
    /\ files = [h \in HandleIds |-> UnusedFile]
    /\ last = NoResult
    /\ mapMutex = NoCaller
    /\ callers = [p \in Callers |-> IdleCaller]
    /\ writeFileCallback = NilCallback

(***************************************************************************)
(* SetFileSystemHandler                                                    *)
(***************************************************************************)
SetFileSystemHandler(handler) ==
    /\ Idle
    /\ UNCHANGED seqFrame
    /\ fileSystemHandler' = handler
    /\ last' = Result("SetFileSystemHandler", 0, UnusedFile, FALSE, << >>, Nil)
    /\ UNCHANGED <<swiftFileMap, files>>

(***************************************************************************)
(* OpenFile, Create, CreateTemp                                            *)
(***************************************************************************)
\* the *os.File a successful native open returns
OpenedFile(k, name, under, fd) ==
    [st |-> "open", sysfd |-> k, name |-> name, under |-> under,
     rfd |-> fd, closes |-> 0,
     remote |-> IF under # NoHandler THEN "open" ELSE "none"]

\* the next unused *os.File object
NewHandle == CHOOSE h \in UnusedHandles : \A x \in UnusedHandles : h <= x

\* a failed handler open that is followed by a Close of descriptor 0
OpenHandlerFailCallsClose(hid, op, herr) ==
    <<HCall(hid, op, 0, herr), HCall(hid, "Close", 0, Nil)>>

\* backend calls of an open whose handler call failed
OpenHandlerFailCalls(hid, op, herr) == <<HCall(hid, op, 0, herr)>>

\* a cleanup that forgets to close the descriptor
OpenNativeFailCallsNoClose(hid, op, nop, fd, nerr, cerr) ==
    <<HCall(hid, op, fd, Nil), NCall(nop, InvalidFd, nerr)>>

\* backend calls of an open whose handler call succeeded with descriptor fd
\* and whose native open failed: the descriptor is closed, the error of
\* that Close is dropped
OpenNativeFailCalls(hid, op, nop, fd, nerr, cerr) ==
    <<HCall(hid, op, fd, Nil), NCall(nop, InvalidFd, nerr),
      HCall(hid, "Close", fd, cerr)>>

\* backend calls of an open that succeeded on both sides
OpenOkCalls(hid, op, nop, fd, k) ==
    <<HCall(hid, op, fd, Nil), NCall(nop, k, Nil)>>

\* op: the exported function; nop: the native call it makes in the handler
\* branch; name: the name recorded (for CreateTemp the handler's filename)
HandlerOpen(op, nop, name) ==
    /\ Idle
    /\ UNCHANGED seqFrame
    /\ fileSystemHandler # NoHandler
    /\ \/ \E herr \in HandlerErrs :
            /\ last' = Result(op, 0, UnusedFile, FALSE,
                          OpenHandlerFailCalls(fileSystemHandler, op, herr), herr)
            /\ UNCHANGED <<fileSystemHandler, swiftFileMap, files>>
       \/ \E fd \in RemoteFds, nerr \in NativeErrs, cerr \in {Nil} \cup HandlerErrs :
            /\ last' = Result(op, 0, UnusedFile, FALSE,
                          OpenNativeFailCalls(fileSystemHandler, op, nop,
                                              fd, nerr, cerr), nerr)
            /\ UNCHANGED <<fileSystemHandler, swiftFileMap, files>>
       \/ /\ UnusedHandles # {} /\ FreeFds # {}
          /\ \E fd \in RemoteFds :
               /\ files' = [files EXCEPT ![NewHandle] =
                              OpenedFile(NewFd, name, fileSystemHandler, fd)]
               /\ swiftFileMap' =
                     addSwiftFile(swiftFileMap, NewFd, NewHandle, fd, name)
               /\ last' = Result(op, NewHandle, UnusedFile, FALSE,
                             OpenOkCalls(fileSystemHandler, op, nop, fd, NewFd),
                             Nil)
               /\ UNCHANGED fileSystemHandler

NativeOpen(op, name) ==
    /\ Idle
    /\ UNCHANGED seqFrame
    /\ fileSystemHandler = NoHandler
    /\ \/ \E nerr \in NativeErrs :
            /\ last' = Result(op, 0, UnusedFile, FALSE,
                          <<NCall(op, InvalidFd, nerr)>>, nerr)
            /\ UNCHANGED <<fileSystemHandler, swiftFileMap, files>>
       \/ /\ UnusedHandles # {} /\ FreeFds # {}
          /\ files' = [files EXCEPT ![NewHandle] =
                          OpenedFile(NewFd, name, NoHandler, 0)]
          /\ last' = Result(op, NewHandle, UnusedFile, FALSE,
                        <<NCall(op, NewFd, Nil)>>, Nil)
          /\ UNCHANGED <<fileSystemHandler, swiftFileMap>>

OpenFile(name) ==
    \/ HandlerOpen("OpenFile", "OpenFile", name)
    \/ NativeOpen("OpenFile", name)

Create(name) ==
    \/ HandlerOpen("Create", "Create", name)
    \/ NativeOpen("Create", name)

CreateTemp ==
    \E filename \in TempNames :
        \/ HandlerOpen("CreateTemp", "OpenFile", filename)
        \/ NativeOpen("CreateTemp", filename)

\* the errors the backend that serves f may return
BackendErrs(f) ==
    IF fileSystemHandler # NoHandler /\ getSwiftFile(swiftFileMap, Fd(f))
    THEN HandlerErrs ELSE NativeErrs

(***************************************************************************)
(* Close                                                                   *)
(***************************************************************************)
\* a Close that deletes the record of f also when no handler is installed
CloseOutcomeUntrack(f, hcerr, ncerr) ==
    LET key == Fd(f)
        nc  == NCall("Close", key, NativeErr(f, ncerr))
    IN  [calls |-> <<nc>>, err |-> nc.err,
         map |-> removeSwiftFile(swiftFileMap, key), native |-> TRUE,
         closed |-> 0]

\* what Close(f) does: its backend calls, the error it returns, the map it
\* leaves, whether f.Close() ran and the file whose remote descriptor was
\* passed to the handler's Close (wf.file, or 0).  hcerr: the error of the handler's
\* Close; ncerr: the error the kernel reports for the native close of an
\* open file.
CloseOutcome(f, hcerr, ncerr) ==
    LET key == Fd(f)
        nc  == NCall("Close", key, NativeErr(f, ncerr))
    IN  IF fileSystemHandler # NoHandler /\ getSwiftFile(swiftFileMap, key)
        THEN LET wf == swiftFileMap[key]
                 hc == HCall(fileSystemHandler, "Close", wf.swiftFD, hcerr)
                 m  == removeSwiftFile(swiftFileMap, key)
             IN  IF hcerr # Nil
                 THEN [calls |-> <<hc>>, err |-> hcerr, map |-> m,
                       native |-> FALSE, closed |-> wf.file]
                 ELSE [calls |-> <<hc, nc>>, err |-> nc.err, map |-> m,
                       native |-> TRUE, closed |-> wf.file]
        ELSE [calls |-> <<nc>>, err |-> nc.err, map |-> swiftFileMap,
              native |-> TRUE, closed |-> 0]

\* the *os.File after Close(f); native: whether f.Close() ran.  A natively
\* closed file keeps its name and has no descriptor.
ClosedFile(f, native) ==
    IF native
    THEN [UnusedFile EXCEPT !.st = "closed", !.name = f.name, !.closes = 1,
                            !.remote = f.remote]
    ELSE [f EXCEPT !.closes = 1]

\* the files after the handler's Close has been invoked with the remote
\* descriptor of file g (0: it has not been invoked)
RemoteClosed(fs, g) ==
    IF g = 0 THEN fs ELSE [fs EXCEPT ![g].remote = "closed"]

Close(h) ==
    /\ Idle
    /\ UNCHANGED seqFrame
    /\ files[h].st # "unused"
    /\ \E hcerr \in {Nil} \cup (HandlerErrs \cap BackendErrs(files[h])),
          ncerr \in {Nil} \cup NativeErrs :
         LET f == files[h]
             o == CloseOutcome(f, hcerr, ncerr)
         IN  /\ swiftFileMap' = o.map
             /\ files' = [RemoteClosed(files, o.closed) EXCEPT
                              ![h] = ClosedFile(@, o.native)]
             /\ last' = Result("Close", h, f,
                           getSwiftFile(swiftFileMap, Fd(f)), o.calls, o.err)
             /\ UNCHANGED fileSystemHandler

(***************************************************************************)
(* Write, WriteAt, Seek, Sync                                              *)
(***************************************************************************)
\* a dispatch that always uses the native method
DispatchNative(verb, f, herr, nerr) == NCall(verb, Fd(f), NativeErr(f, nerr))

\* the backend call of a verb on an open handle: the handler with the
\* recorded descriptor when a handler is installed and f.Fd() has a record,
\* the native method of f otherwise
Dispatch(verb, f, herr, nerr) ==
    LET key == Fd(f)
    IN  IF fileSystemHandler # NoHandler /\ getSwiftFile(swiftFileMap, key)
        THEN HCall(fileSystemHandler, verb, swiftFileMap[key].swiftFD, herr)
        ELSE NCall(verb, key, NativeErr(f, nerr))

HandleVerb(verb, h) ==
    /\ Idle
    /\ UNCHANGED seqFrame
    /\ files[h].st # "unused"
    /\ \E e \in {Nil} \cup BackendErrs(files[h]) :
         LET c == Dispatch(verb, files[h], e, e)
         IN  last' = Result(verb, h, files[h],
                       getSwiftFile(swiftFileMap, Fd(files[h])), <<c>>, c.err)
    /\ UNCHANGED <<fileSystemHandler, swiftFileMap, files>>

Write(h)   == HandleVerb("Write", h)
WriteAt(h) == HandleVerb("WriteAt", h)
Seek(h)    == HandleVerb("Seek", h)
Sync(h)    == HandleVerb("Sync", h)

(***************************************************************************)
(* Read                                                                    *)
(***************************************************************************)
\* copy(dst, src): the first min(len(dst), len(src)) elements are copied
Min(a, b) == IF a <= b THEN a ELSE b

copy(dst, src) ==
    [i \in 1 .. Len(dst) |-> IF i <= Min(Len(dst), Len(src)) THEN src[i] ELSE dst[i]]

\* a Read that reports the requested count
ReadCountRequested(data, b) == Len(data)

\* the tracked branch of Read: the count and the buffer it leaves when the
\* handler returned bytes b without error
ReadCount(data, b) == Len(b)

ReadBuffer(data, b) == copy(data, b)

\* buffers a caller passes: MaxLen or fewer old bytes
Buffers == {[i \in 1 .. n |-> OldByte] : n \in 0 .. MaxLen}

\* byte sequences a backend returns: its i-th byte is i
Bytes(n) == [i \in 1 .. n |-> i]

Read(h) ==
    /\ Idle
    /\ UNCHANGED seqFrame
    /\ files[h].st # "unused"
    /\ \E data \in Buffers :
         LET f   == files[h]
             key == Fd(f)
             trk == getSwiftFile(swiftFileMap, key)
         IN  IF fileSystemHandler # NoHandler /\ trk
             THEN \E herr \in {Nil} \cup HandlerErrs, m \in 0 .. MaxLen + 1 :
                    LET hc == HCall(fileSystemHandler, "Read",
                                    swiftFileMap[key].swiftFD, herr)
                        r  == Result("Read", h, f, trk, <<hc>>, herr)
                    IN  IF herr # Nil
                        THEN last' = [r EXCEPT !.bufIn = data, !.buf = data]
                        ELSE last' = [r EXCEPT !.bufIn = data, !.ret = Bytes(m),
                                        !.n = ReadCount(data, Bytes(m)),
                                        !.buf = ReadBuffer(data, Bytes(m))]
             ELSE \E nerr \in {Nil} \cup NativeErrs, m \in 0 .. Len(data) :
                    LET e  == NativeErr(f, nerr)
                        nc == NCall("Read", key, e)
                        r  == Result("Read", h, f, trk, <<nc>>, e)
                    IN  IF e # Nil
                        THEN last' = [r EXCEPT !.bufIn = data, !.buf = data]
                        ELSE last' = [r EXCEPT !.bufIn = data, !.ret = Bytes(m),
                                        !.n = m, !.buf = copy(data, Bytes(m))]
    /\ UNCHANGED <<fileSystemHandler, swiftFileMap, files>>

(***************************************************************************)
(* Name                                                                    *)
(***************************************************************************)
\* Name(f): wf.name when a handler is installed and f.Fd() has a record,
\* f.Name() otherwise; it calls no backend
Name(h) ==
    /\ Idle
    /\ UNCHANGED seqFrame
    /\ files[h].st # "unused"
    /\ LET f   == files[h]
           key == Fd(f)
           trk == getSwiftFile(swiftFileMap, key)
       IN  last' = [Result("Name", h, f, trk, << >>, Nil) EXCEPT
                       !.str = IF fileSystemHandler # NoHandler /\ trk
                               THEN swiftFileMap[key].name ELSE f.name]
    /\ UNCHANGED <<fileSystemHandler, swiftFileMap, files>>

(***************************************************************************)
(* The verbs that take a path: WriteFile, ReadFile, Remove, ...            *)
(***************************************************************************)
PathVerbs == {"WriteFile", "Remove"}

PathVerb(verb) ==
    /\ Idle
    /\ UNCHANGED seqFrame
    /\ \E e \in {Nil} \cup (IF fileSystemHandler # NoHandler
                              THEN HandlerErrs ELSE NativeErrs) :
         LET c == IF fileSystemHandler # NoHandler
                  THEN HCall(fileSystemHandler, verb, 0, e)
                  ELSE NCall(verb, InvalidFd, e)
         IN  last' = Result(verb, 0, UnusedFile, FALSE, <<c>>, c.err)
    /\ UNCHANGED <<fileSystemHandler, swiftFileMap, files>>

(***************************************************************************)
(* (f *File).WriteAt of the variant whose handle is a File{fd, name, file} *)
(* (src/unnamed/part_000).  Every File the package constructs has a nil    *)
(* file field, so without a handler the method opens f.name itself.        *)
(***************************************************************************)
FileWriteAt ==
    /\ Idle
    /\ UNCHANGED seqFrame
    /\ IF fileSystemHandler # NoHandler
       THEN last' = Result("File.WriteAt", 0, UnusedFile, FALSE, << >>,
                       ErrNotImplemented)
       ELSE \/ \E nerr \in NativeErrs :
                 last' = Result("File.WriteAt", 0, UnusedFile, FALSE,
                            <<NCall("OpenFile", InvalidFd, nerr)>>, nerr)
            \/ \E werr \in {Nil} \cup NativeErrs :
                 last' = Result("File.WriteAt", 0, UnusedFile, FALSE,
                            <<NCall("OpenFile", InvalidFd, Nil),
                              NCall("WriteAt", InvalidFd, werr),
                              NCall("Close", InvalidFd, Nil)>>, werr)
    /\ UNCHANGED <<fileSystemHandler, swiftFileMap, files>>

(***************************************************************************)
(* The variant with one callback variable per verb (src/unnamed/part_001). *)
(* No statement of the package assigns a callback variable.                *)
(***************************************************************************)
ErrInvalid == "ErrInvalid"            \* os.ErrInvalid

\* SetWriteFileCallback(filename, data, perm): calls the callback if there
\* is one and returns os.ErrInvalid otherwise
SetWriteFileCallback ==
    /\ Idle
    /\ UNCHANGED seqFrame
    /\ IF writeFileCallback # NilCallback
       THEN \E e \in {Nil} \cup HandlerErrs :
               last' = Result("SetWriteFileCallback", 0, UnusedFile, FALSE,
                          <<HCall(writeFileCallback, "WriteFile", 0, e)>>, e)
       ELSE last' = Result("SetWriteFileCallback", 0, UnusedFile, FALSE,
                       << >>, ErrInvalid)
    /\ UNCHANGED <<fileSystemHandler, swiftFileMap, files>>

\* WriteFile of this variant: the callback if there is one, os.WriteFile
\* otherwise
CallbackWriteFile ==
    /\ Idle
    /\ UNCHANGED seqFrame
    /\ IF writeFileCallback # NilCallback
       THEN \E e \in {Nil} \cup HandlerErrs :
               last' = Result("CallbackWriteFile", 0, UnusedFile, FALSE,
                          <<HCall(writeFileCallback, "WriteFile", 0, e)>>, e)
       ELSE \E e \in {Nil} \cup NativeErrs :
               last' = Result("CallbackWriteFile", 0, UnusedFile, FALSE,
                          <<NCall("WriteFile", InvalidFd, e)>>, e)
    /\ UNCHANGED <<fileSystemHandler, swiftFileMap, files>>

(***************************************************************************)
(* The verb returns: its results have been handed to the caller, which may *)
(* now call the next verb.                                                 *)
(***************************************************************************)
Return ==
    /\ ~Idle
    /\ UNCHANGED seqFrame
    /\ last' = NoResult
    /\ UNCHANGED <<fileSystemHandler, swiftFileMap, files>>

Next ==
    \/ \E x \in Handlers \cup {NoHandler} : SetFileSystemHandler(x)
    \/ \E name \in Paths : OpenFile(name)
    \/ \E name \in Paths : Create(name)
    \/ CreateTemp
    \/ \E h \in HandleIds : Close(h)
    \/ \E h \in HandleIds : Write(h)
    \/ \E h \in HandleIds : WriteAt(h)
    \/ \E h \in HandleIds : Seek(h)
    \/ \E h \in HandleIds : Sync(h)
    \/ \E h \in HandleIds : Read(h)
    \/ \E h \in HandleIds : Name(h)
    \/ \E v \in PathVerbs : PathVerb(v)
    \/ FileWriteAt
    \/ SetWriteFileCallback
    \/ CallbackWriteFile
    \/ Return

Spec == Init /\ [][Next]_vars

(***************************************************************************)
(* Vocabulary of the properties.                                           *)
(***************************************************************************)
OpenOps   == {"OpenFile", "Create", "CreateTemp"}
HandleOps == {"Read", "Write", "WriteAt", "Seek", "Sync", "Close"}
IoOps     == {"Read", "Write", "WriteAt", "Seek", "Sync"}

Calls == {last.calls[i] : i \in 1 .. Len(last.calls)}
HandlerCalls == {c \in Calls : c.to = "handler"}
NativeCalls  == {c \in Calls : c.to = "native"}

\* the handle was returned by an open made while a handler was installed
\* and Close has not been called on it
OpenUnderHandler(f) == f.st = "open" /\ f.closes = 0 /\ f.under # NoHandler
OpenNatively(f)     == f.st = "open" /\ f.closes = 0 /\ f.under = NoHandler

\* a verb of the fileSystemHandler variants is in last and ran with a
\* handler installed (no verb but SetFileSystemHandler assigns the variable)
RanWithHandler ==
    /\ ~Idle
    /\ last.op \notin {"SetFileSystemHandler", "SetWriteFileCallback",
                       "CallbackWriteFile"}
    /\ fileSystemHandler # NoHandler

(***************************************************************************)
(* C1.  Every Read, Write, WriteAt, Seek, Sync and Close on a handle that  *)
(* an open returned while a handler was installed, up to and including its *)
(* first Close, is dispatched to the handler with the remote descriptor    *)
(* the handler returned at that open, and no native read, write, write-at, *)
(* seek or sync is performed on the handle.                                *)
(* Violated: after SetFileSystemHandler(nil) the verbs use the native      *)
(* file.                                                                   *)
(***************************************************************************)
C1_RoutedWithOpenDescriptor ==
    (last.op \in HandleOps /\ OpenUnderHandler(last.pre))
        => /\ Len(last.calls) >= 1
           /\ last.calls[1].to = "handler"
           /\ last.calls[1].verb = last.op
           /\ last.calls[1].fd = last.pre.rfd
           /\ \A c \in NativeCalls : c.verb = "Close"

\* the same statement for the calls made while the handler is installed
C1_RoutedWhileInstalled ==
    (last.op \in HandleOps /\ OpenUnderHandler(last.pre) /\ RanWithHandler)
        => /\ Len(last.calls) >= 1
           /\ last.calls[1] = HCall(fileSystemHandler, last.op, last.pre.rfd,
                                     last.calls[1].err)
           /\ \A c \in NativeCalls : c.verb = "Close"

(***************************************************************************)
(* C2.  Whenever no verb is in progress, swiftFileMap has a record under a *)
(* descriptor number exactly if a handle with that number is open and was  *)
(* opened while a handler was installed.                                   *)
(* Violated: a Close made after SetFileSystemHandler(nil) leaves the       *)
(* record of the closed handle in the map.                                 *)
(***************************************************************************)
C2_RecordIffOpenUnderHandler ==
    Idle => \A k \in OsFds :
               getSwiftFile(swiftFileMap, k)
                   <=> \E h \in HandleIds :
                          OpenUnderHandler(files[h]) /\ files[h].sysfd = k

(***************************************************************************)
(* C3.  When an open's handler call succeeds and its native open fails,    *)
(* the handler's Close is called exactly once, with the descriptor just    *)
(* obtained, and the open returns the native error and no handle.          *)
(***************************************************************************)
NativeOpenFailed ==
    /\ last.op \in OpenOps
    /\ Len(last.calls) >= 2
    /\ last.calls[1].to = "handler" /\ last.calls[1].err = Nil
    /\ last.calls[2].to = "native" /\ last.calls[2].err # Nil

C3_NativeOpenFailureClosesDescriptor ==
    NativeOpenFailed
        => /\ Len(last.calls) = 3
           /\ last.calls[3].to = "handler"
           /\ last.calls[3].verb = "Close"
           /\ last.calls[3].hid = last.calls[1].hid
           /\ last.calls[3].fd = last.calls[1].fd
           /\ Cardinality({i \in 1 .. Len(last.calls) :
                    last.calls[i].verb = "Close"}) = 1
           /\ last.err = last.calls[2].err
           /\ last.h = 0

C3_Witness ==
    /\ NativeOpenFailed
    /\ last.op = "CreateTemp"
    /\ last.calls[3].err # Nil

(***************************************************************************)
(* C4.  After Close(f) on a handle that has a record, the map has no entry *)
(* for f, whatever Close returned.                                         *)
(* Violated: with no handler installed Close does not touch the map.       *)
(***************************************************************************)
C4_CloseRemovesRecord ==
    (last.op = "Close" /\ last.tracked)
        => ~getSwiftFile(swiftFileMap, Fd(last.pre))

\* the same statement for a Close made while a handler is installed
C4_CloseRemovesRecordWhileInstalled ==
    (last.op = "Close" /\ last.tracked /\ RanWithHandler)
        => ~getSwiftFile(swiftFileMap, Fd(last.pre))

(***************************************************************************)
(* C5.  A second Close(f) calls no handler method, changes no map entry    *)
(* and returns no error.                                                   *)
(* Violated: the second Close runs f.Close() on the closed file and        *)
(* returns os.ErrClosed.                                                   *)
(***************************************************************************)
SecondClose == Idle /\ last'.op = "Close" /\ last'.pre.closes = 1

C5_SecondCloseNoError ==
    [][SecondClose
        => /\ \A i \in 1 .. Len(last'.calls) : last'.calls[i].to # "handler"
           /\ swiftFileMap' = swiftFileMap
           /\ last'.err = Nil]_vars

\* amended: it calls no handler method and changes no map entry; it runs
\* the native f.Close() and returns its result, which is os.ErrClosed when
\* the file was already closed natively
C5_SecondCloseIsNativeClose ==
    [][SecondClose
        => /\ Len(last'.calls) = 1
           /\ last'.calls[1].to = "native"
           /\ last'.calls[1].verb = "Close"
           /\ swiftFileMap' = swiftFileMap
           /\ last'.err = last'.calls[1].err
           /\ (last'.pre.st = "closed" <=> last'.err = ErrClosed)]_vars

C5_Witness ==
    /\ last.op = "Close"
    /\ last.pre.closes = 1
    /\ last.err = ErrClosed
    /\ fileSystemHandler # NoHandler

(***************************************************************************)
(* C6.  While a handler is installed no verb makes a native call.          *)
(* Violated: OpenFile, Create and CreateTemp open a native file after the  *)
(* handler's open, and Close closes it.                                    *)
(***************************************************************************)
C6_NoNativeCallWhileInstalled == RanWithHandler => NativeCalls = {}

\* amended: while a handler is installed, Read, Write, WriteAt, Seek and
\* Sync on a handle that has a record, and the verbs that take a path, make
\* exactly one call, to the handler; an open calls the handler first and
\* then, if that succeeded, opens a native file; Close on a handle that has
\* a record calls the handler's Close first and then, if that succeeded,
\* closes the native file
C6_NativeCallsWhileInstalled ==
    RanWithHandler
        => /\ (last.op \in IoOps /\ last.tracked) \/ last.op \in PathVerbs
                => /\ Len(last.calls) = 1
                   /\ last.calls[1].to = "handler"
                   /\ last.calls[1].verb = last.op
           /\ last.op \in OpenOps
                => /\ last.calls[1].to = "handler"
                   /\ last.calls[1].verb = last.op
                   /\ last.calls[1].err # Nil => Len(last.calls) = 1
                   /\ last.calls[1].err = Nil
                        => /\ Len(last.calls) >= 2
                           /\ last.calls[2].to = "native"
                           /\ last.calls[2].verb \in {"OpenFile", "Create"}
                   /\ \A i \in 3 .. Len(last.calls) :
                          last.calls[i].to = "handler"
           /\ (last.op = "Close" /\ last.tracked)
                => /\ last.calls[1].to = "handler"
                   /\ last.calls[1].verb = "Close"
                   /\ last.calls[1].err # Nil => Len(last.calls) = 1
                   /\ last.calls[1].err = Nil
                        => /\ Len(last.calls) = 2
                           /\ last.calls[2].to = "native"
                           /\ last.calls[2].verb = "Close"

C6_Witness ==
    /\ RanWithHandler
    /\ last.op = "Close"
    /\ last.tracked
    /\ Len(last.calls) = 2
    /\ last.calls[2].to = "native"

(***************************************************************************)
(* C7.  The backend chosen when a handle was opened serves every later     *)
(* Read, Write, WriteAt, Seek, Sync and Close on it until it is closed,    *)
(* whatever SetFileSystemHandler calls are made in between.                *)
(* Violated: every verb tests fileSystemHandler anew.                      *)
(***************************************************************************)
C7_BackendFixedAtOpen ==
    (last.op \in HandleOps /\ last.pre.st = "open" /\ last.pre.closes = 0)
        => IF last.pre.under # NoHandler
           THEN /\ last.calls[1].to = "handler"
                /\ last.calls[1].hid = last.pre.under
           ELSE HandlerCalls = {}

(***************************************************************************)
(* C8.  Read on a handle served by the handler, when the handler returns M *)
(* bytes for a buffer of N, copies min(N, M) bytes and returns min(N, M),  *)
(* never more than N.                                                      *)
(* Violated: Read returns len(b), which is M, also when M > N.             *)
(***************************************************************************)
HandlerRead ==
    /\ last.op = "Read"
    /\ Len(last.calls) = 1
    /\ last.calls[1].to = "handler"
    /\ last.err = Nil

C8_ReadCountIsMin ==
    HandlerRead
        => /\ last.n = Min(Len(last.bufIn), Len(last.ret))
           /\ last.n <= Len(last.bufIn)
           /\ \A i \in 1 .. Len(last.buf) :
                  last.buf[i] = IF i <= Min(Len(last.bufIn), Len(last.ret))
                                THEN last.ret[i] ELSE last.bufIn[i]

(***************************************************************************)
(* C9.  Read on a handle served by the handler, when the handler returns   *)
(* M < N bytes without error, returns M and a nil error, the first M bytes *)
(* of the buffer are the bytes returned and the other N - M are unchanged. *)
(***************************************************************************)
C9_ShortRead ==
    (HandlerRead /\ Len(last.ret) < Len(last.bufIn))
        => /\ last.n = Len(last.ret)
           /\ last.err = Nil
           /\ Len(last.buf) = Len(last.bufIn)
           /\ \A i \in 1 .. Len(last.ret) : last.buf[i] = last.ret[i]
           /\ \A i \in Len(last.ret) + 1 .. Len(last.bufIn) :
                  last.buf[i] = last.bufIn[i]

C9_Witness ==
    /\ HandlerRead
    /\ Len(last.bufIn) = MaxLen
    /\ Len(last.ret) = 1
    /\ last.buf[1] # last.bufIn[1]

(***************************************************************************)
(* C10.  The error a verb returns is the error of a backend call it made:  *)
(* no verb returns an error of its own making, and no error of a backend   *)
(* call is dropped.                                                        *)
(* Violated: an open drops the error of the handler's Close it calls after *)
(* a failed native open; File.WriteAt returns an error it made itself.     *)
(***************************************************************************)
C10_ErrorsAreBackendErrors ==
    (~Idle /\ last.op # "SetWriteFileCallback")
        => /\ last.err # Nil => \E c \in Calls : c.err = last.err
           /\ \A c \in Calls : c.err # Nil => last.err = c.err

(***************************************************************************)
(* C11.  A verb called while no handler is installed makes exactly one     *)
(* backend call, the native call of the same verb on the same file, and    *)
(* returns what that call returned: its error, the file it opened, the     *)
(* count and the bytes it read; it leaves swiftFileMap as it was.          *)
(***************************************************************************)
C11_NativeEquivalence ==
    [][(Idle /\ fileSystemHandler = NoHandler
             /\ last'.op \in OpenOps \cup HandleOps)
        => /\ swiftFileMap' = swiftFileMap
           /\ Len(last'.calls) = 1
           /\ last'.calls[1].to = "native"
           /\ last'.calls[1].verb = last'.op
           /\ last'.err = last'.calls[1].err
           /\ last'.op \in HandleOps
                => /\ last'.calls[1].fd = Fd(files[last'.h])
                   /\ last'.pre = files[last'.h]
           /\ (last'.op \in OpenOps /\ last'.err = Nil)
                => /\ last'.h \in HandleIds
                   /\ files[last'.h].st = "unused"
                   /\ files'[last'.h].st = "open"
                   /\ files'[last'.h].sysfd = last'.calls[1].fd
           /\ (last'.op \in OpenOps /\ last'.err # Nil)
                => last'.h = 0 /\ files' = files
           /\ (last'.op = "Read" /\ last'.err = Nil)
                => /\ last'.n = Len(last'.ret)
                   /\ last'.buf = copy(last'.bufIn, last'.ret)
           /\ last'.op = "Close" => files'[last'.h].st = "closed"]_vars

C11_Witness ==
    /\ fileSystemHandler = NoHandler
    /\ last.op = "Close"
    /\ last.tracked
    /\ last.err = Nil
    /\ getSwiftFile(swiftFileMap, last.pre.sysfd)

(***************************************************************************)
(* C12.  A handle is OPEN from its open until Close is called on it and    *)
(* CLOSED from then on: only Close changes the state of a handle; a Close  *)
(* on an OPEN handle leaves the remote descriptor closed, the record       *)
(* removed and the native file closed; a CLOSED handle never becomes OPEN  *)
(* or tracked again.                                                       *)
(* Violated: when the handler's Close fails, Close returns without closing *)
(* the native file; when no handler is installed, Close neither closes the *)
(* remote descriptor nor removes the record.                               *)
(***************************************************************************)
IsOpen(f)   == f.st = "open" /\ f.closes = 0
IsClosed(f) == f.st = "closed" \/ f.closes = 1

C12_OpenThenClosed ==
    [][\A h \in HandleIds :
          /\ (IsOpen(files[h]) /\ files'[h] # files[h])
                => last'.op = "Close" /\ last'.h = h
          /\ (Idle /\ last'.op = "Close" /\ last'.h = h /\ IsOpen(files[h]))
                => /\ files'[h].st = "closed"
                   /\ ~getSwiftFile(swiftFileMap', files[h].sysfd)
                   /\ files[h].under # NoHandler
                        => \E i \in 1 .. Len(last'.calls) :
                              /\ last'.calls[i].to = "handler"
                              /\ last'.calls[i].verb = "Close"
                              /\ last'.calls[i].fd = files[h].rfd
          /\ IsClosed(files[h])
                => /\ IsClosed(files'[h])
                   /\ ~getSwiftFile(swiftFileMap', Fd(files'[h]))]_vars

(***************************************************************************)
(* Concurrent callers.                                                     *)
(*                                                                         *)
(* The same functions (src/esfo.go lines 1-385), executed by MaxCallers    *)
(* goroutines one statement at a time.  A backend call is in progress      *)
(* while its caller is at one of the BackendPcs: the step that reaches the *)
(* pc invokes the call, the step that leaves it is the call's return.      *)
(* Locking mapMutex, the access to swiftFileMap and unlocking are three    *)
(* steps.  In ConcSpec fileSystemHandler is assigned only while no verb is  *)
(* in progress (the handler is installed by the embedding application at   *)
(* startup); in RaceSpec SetFileSystemHandler runs at any moment.  A verb  *)
(* reads the variable when it tests `fileSystemHandler != nil` and again   *)
(* at every call of a handler method.                                      *)
(***************************************************************************)
LockPcs   == {"addSwiftFile_Lock", "getSwiftFile_Lock", "removeSwiftFile_Lock"}
AccessPcs == {"addSwiftFile_Store", "getSwiftFile_Lookup",
              "removeSwiftFile_Delete"}
UnlockPcs == {"addSwiftFile_Unlock", "getSwiftFile_Unlock",
              "removeSwiftFile_Unlock"}
BackendPcs == {"Open_handler", "Open_native", "Open_cleanup",
               "Close_handler", "Close_native", "Io_handler", "Io_native"}

\* the verbs concurrent callers use: OpenFile stands for the three opens
\* and Write for the five I/O verbs, which differ from them in the backend
\* method only
ConcOpenOps == {"OpenFile"}
ConcIoOps == {"Write"}

\* what a step of a concurrent caller leaves alone
concFrame == <<last, writeFileCallback>>

\* a caller has called a method of a nil handler: the program has panicked
Panicked == \E p \in Callers : callers[p].pc = "panic"

\* p is at the statement pc and the program runs
At(p, pc) == ~Panicked /\ callers[p].pc = pc

Goto(p, pc) == callers' = [callers EXCEPT ![p].pc = pc]

\* the verb of p returns to its caller
Returns(p) == callers' = [callers EXCEPT ![p] = IdleCaller]

\* files that an open in progress has obtained and not yet returned
InFlight == {callers[p].h : p \in {q \in Callers :
                                     callers[q].op \in ConcOpenOps}}

\* files a caller can pass to a verb
Held == {h \in HandleIds : files[h].st # "unused"} \ InFlight

\* the pc of a caller that calls a method of fileSystemHandler: the
\* variable is read again at the call, and a method call on a nil interface
\* value panics
Invoke(pc) == IF fileSystemHandler # NoHandler THEN pc ELSE "panic"

(***************************************************************************)
(* mapMutex                                                                *)
(***************************************************************************)
\* a Lock that does not wait for the holder
LockNoWait(p, from, to) ==
    /\ At(p, from)
    /\ mapMutex' = p
    /\ Goto(p, to)
    /\ UNCHANGED <<fileSystemHandler, swiftFileMap, files, concFrame>>

\* mapMutex.Lock(): blocks while another caller holds the mutex
Lock(p, from, to) ==
    /\ At(p, from)
    /\ mapMutex = NoCaller
    /\ mapMutex' = p
    /\ Goto(p, to)
    /\ UNCHANGED <<fileSystemHandler, swiftFileMap, files, concFrame>>

(***************************************************************************)
(* addSwiftFile, getSwiftFile, removeSwiftFile, statement by statement     *)
(***************************************************************************)
addSwiftFile_Lock(p) == Lock(p, "addSwiftFile_Lock", "addSwiftFile_Store")

addSwiftFile_Store(p) ==
    /\ At(p, "addSwiftFile_Store")
    /\ LET c == callers[p]
       IN  swiftFileMap' = addSwiftFile(swiftFileMap, Fd(files[c.h]), c.h,
                                        c.swiftFD, c.name)
    /\ Goto(p, "addSwiftFile_Unlock")
    /\ UNCHANGED <<fileSystemHandler, files, mapMutex, concFrame>>

\* the last statement of the open: the file is returned
addSwiftFile_Unlock(p) ==
    /\ At(p, "addSwiftFile_Unlock")
    /\ mapMutex' = NoCaller
    /\ Returns(p)
    /\ UNCHANGED <<fileSystemHandler, swiftFileMap, files, concFrame>>

getSwiftFile_Lock(p) == Lock(p, "getSwiftFile_Lock", "getSwiftFile_Lookup")

getSwiftFile_Lookup(p) ==
    /\ At(p, "getSwiftFile_Lookup")
    /\ LET key == Fd(files[callers[p].h])
           ok  == getSwiftFile(swiftFileMap, key)
       IN  callers' = [callers EXCEPT
              ![p].pc = "getSwiftFile_Unlock",
              ![p].ok = ok,
              ![p].swiftFD = IF ok THEN swiftFileMap[key].swiftFD ELSE 0,
              ![p].file = IF ok THEN swiftFileMap[key].file ELSE 0]
    /\ UNCHANGED <<fileSystemHandler, swiftFileMap, files, mapMutex, concFrame>>

\* an unlock that is deferred until the verb returns
getSwiftFile_UnlockLate(p) ==
    /\ At(p, "getSwiftFile_Unlock")
    /\ LET c == callers[p]
       IN  /\ callers' = [callers EXCEPT
                 ![p].pc = IF c.ok
                           THEN Invoke(IF c.op = "Close" THEN "Close_handler"
                                                         ELSE "Io_handler")
                           ELSE IF c.op = "Close" THEN "Close_native"
                                                  ELSE "Io_native",
                 ![p].handler = IF c.ok THEN fileSystemHandler ELSE NoHandler]
           /\ files' = IF c.op = "Close" /\ c.ok
                            /\ fileSystemHandler # NoHandler
                       THEN RemoteClosed(files, c.file) ELSE files
    /\ UNCHANGED <<fileSystemHandler, swiftFileMap, mapMutex, concFrame>>

\* the unlock, and the branch of the calling verb on the result: with a
\* record the handler is invoked with wf.swiftFD, without one the native
\* method of f
getSwiftFile_Unlock(p) ==
    /\ At(p, "getSwiftFile_Unlock")
    /\ mapMutex' = NoCaller
    /\ LET c == callers[p]
       IN  /\ callers' = [callers EXCEPT
                 ![p].pc = IF c.ok
                           THEN Invoke(IF c.op = "Close" THEN "Close_handler"
                                                         ELSE "Io_handler")
                           ELSE IF c.op = "Close" THEN "Close_native"
                                                  ELSE "Io_native",
                 ![p].handler = IF c.ok THEN fileSystemHandler ELSE NoHandler]
           /\ files' = IF c.op = "Close" /\ c.ok
                            /\ fileSystemHandler # NoHandler
                       THEN RemoteClosed(files, c.file) ELSE files
    /\ UNCHANGED <<fileSystemHandler, swiftFileMap, concFrame>>

removeSwiftFile_Lock(p) ==
    Lock(p, "removeSwiftFile_Lock", "removeSwiftFile_Delete")

removeSwiftFile_Delete(p) ==
    /\ At(p, "removeSwiftFile_Delete")
    /\ swiftFileMap' = removeSwiftFile(swiftFileMap, Fd(files[callers[p].h]))
    /\ Goto(p, "removeSwiftFile_Unlock")
    /\ UNCHANGED <<fileSystemHandler, files, mapMutex, concFrame>>

\* a Close that returns the handler's error without unlocking
removeSwiftFile_UnlockOnSuccess(p) ==
    /\ At(p, "removeSwiftFile_Unlock")
    /\ LET c == callers[p]
       IN  IF c.err # Nil
           THEN /\ Returns(p)
                /\ files' = [files EXCEPT ![c.h] = ClosedFile(files[c.h], FALSE)]
                /\ UNCHANGED mapMutex
           ELSE /\ Goto(p, "Close_native")
                /\ mapMutex' = NoCaller
                /\ UNCHANGED files
    /\ UNCHANGED <<fileSystemHandler, swiftFileMap, concFrame>>

\* the unlock, and `if err != nil { return err }` of Close
removeSwiftFile_Unlock(p) ==
    /\ At(p, "removeSwiftFile_Unlock")
    /\ mapMutex' = NoCaller
    /\ LET c == callers[p]
       IN  IF c.err # Nil
           THEN /\ Returns(p)
                /\ files' = [files EXCEPT ![c.h] = ClosedFile(files[c.h], FALSE)]
           ELSE /\ Goto(p, "Close_native")
                /\ UNCHANGED files
    /\ UNCHANGED <<fileSystemHandler, swiftFileMap, concFrame>>

(***************************************************************************)
(* OpenFile, statement by statement                                        *)
(***************************************************************************)
\* the verb is entered and tests `fileSystemHandler != nil`: with a handler
\* installed the handler's open is called next, without one the native
\* open is invoked
CallOpen(p, op, name) ==
    /\ At(p, "idle")
    /\ callers' = [callers EXCEPT ![p] =
                      [IdleCaller EXCEPT
                          !.pc = IF fileSystemHandler # NoHandler
                                 THEN "Open_call" ELSE "Open_native",
                          !.op = op, !.name = name]]
    /\ UNCHANGED <<fileSystemHandler, swiftFileMap, files, mapMutex, concFrame>>

\* fileSystemHandler.OpenFile(name, flag, perm) is invoked
OpenInvoke(p) ==
    /\ At(p, "Open_call")
    /\ callers' = [callers EXCEPT ![p].pc = Invoke("Open_handler"),
                                  ![p].handler = fileSystemHandler]
    /\ UNCHANGED <<fileSystemHandler, swiftFileMap, files, mapMutex, concFrame>>

\* the handler's open returns: on an error the verb returns it, otherwise
\* the native open is invoked
OpenHandlerReturn(p) ==
    /\ At(p, "Open_handler")
    /\ LET c == callers[p]
       IN  \/ \E herr \in HandlerErrs : Returns(p)
           \/ \E fd \in RemoteFds :
                callers' = [callers EXCEPT
                   ![p].pc = "Open_native",
                   ![p].swiftFD = fd,
                   ![p].calls = <<HCall(c.handler, c.op, fd, Nil)>>]
    /\ UNCHANGED <<fileSystemHandler, swiftFileMap, files, mapMutex, concFrame>>

\* the native open returns.  After a handler's open: on an error the
\* handler's Close is invoked, otherwise addSwiftFile is called.  Without a
\* handler the verb returns what the native open returned.
OpenNativeReturn(p) ==
    /\ At(p, "Open_native")
    /\ LET c   == callers[p]
           nop == c.op
       IN  \/ /\ \E nerr \in NativeErrs :
                    IF c.swiftFD # 0
                    THEN callers' = [callers EXCEPT
                            ![p].pc = Invoke("Open_cleanup"),
                            ![p].handler = fileSystemHandler,
                            ![p].err = nerr,
                            ![p].calls = Append(c.calls,
                                            NCall(nop, InvalidFd, nerr))]
                    ELSE Returns(p)
              /\ UNCHANGED files
           \/ /\ UnusedHandles # {} /\ FreeFds # {}
              /\ files' = [files EXCEPT ![NewHandle] =
                     OpenedFile(NewFd, c.name,
                                IF c.swiftFD # 0 THEN c.handler
                                                 ELSE NoHandler,
                                c.swiftFD)]
              /\ IF c.swiftFD # 0
                 THEN callers' = [callers EXCEPT
                         ![p].pc = "addSwiftFile_Lock",
                         ![p].h = NewHandle,
                         ![p].calls = Append(c.calls, NCall(nop, NewFd, Nil))]
                 ELSE Returns(p)
    /\ UNCHANGED <<fileSystemHandler, swiftFileMap, mapMutex, concFrame>>

\* the handler's Close of the descriptor returns; its error is dropped and
\* the verb returns the error of the native open
OpenCleanupReturn(p) ==
    /\ At(p, "Open_cleanup")
    /\ Returns(p)
    /\ UNCHANGED <<fileSystemHandler, swiftFileMap, files, mapMutex, concFrame>>

(***************************************************************************)
(* Close and the verbs on a handle, statement by statement                 *)
(***************************************************************************)
\* Close(f) or an I/O verb is entered: with a handler installed
\* getSwiftFile(f) is called, without one the native method is invoked
CallVerb(p, op, h) ==
    /\ At(p, "idle")
    /\ h \in Held
    /\ callers' = [callers EXCEPT ![p] =
                      [IdleCaller EXCEPT
                          !.pc = IF fileSystemHandler # NoHandler
                                 THEN "getSwiftFile_Lock"
                                 ELSE IF op = "Close" THEN "Close_native"
                                                      ELSE "Io_native",
                          !.op = op, !.h = h]]
    /\ UNCHANGED <<fileSystemHandler, swiftFileMap, files, mapMutex, concFrame>>

\* fileSystemHandler.Close(wf.swiftFD) returns; removeSwiftFile(f) is next
CloseHandlerReturn(p) ==
    /\ At(p, "Close_handler")
    /\ \E e \in {Nil} \cup HandlerErrs :
         LET c == callers[p]
         IN  callers' = [callers EXCEPT
                ![p].pc = "removeSwiftFile_Lock",
                ![p].err = e,
                ![p].calls = Append(c.calls,
                                HCall(c.handler, "Close", c.swiftFD, e))]
    /\ UNCHANGED <<fileSystemHandler, swiftFileMap, files, mapMutex, concFrame>>

\* f.Close() returns, and Close with it
CloseNativeReturn(p) ==
    /\ At(p, "Close_native")
    /\ LET h == callers[p].h
       IN  files' = [files EXCEPT ![h] = ClosedFile(files[h], TRUE)]
    /\ Returns(p)
    /\ UNCHANGED <<fileSystemHandler, swiftFileMap, mapMutex, concFrame>>

\* the handler's or the native method returns, and the verb with it
IoReturn(p) ==
    /\ At(p, "Io_handler") \/ At(p, "Io_native")
    /\ Returns(p)
    /\ UNCHANGED <<fileSystemHandler, swiftFileMap, files, mapMutex, concFrame>>

\* SetFileSystemHandler, called while no verb is in progress
Install(handler) ==
    /\ \A p \in Callers : At(p, "idle")
    /\ fileSystemHandler' = handler
    /\ fileSystemHandler # handler
    /\ UNCHANGED <<swiftFileMap, files, mapMutex, callers, concFrame>>

\* a caller enters a verb
Call(p) ==
    \/ \E op \in ConcOpenOps, name \in Paths : CallOpen(p, op, name)
    \/ \E h \in HandleIds : CallVerb(p, "Close", h)
    \/ \E op \in ConcIoOps, h \in HandleIds : CallVerb(p, op, h)

\* a caller takes the mutex
Acquire(p) ==
    \/ addSwiftFile_Lock(p)
    \/ getSwiftFile_Lock(p)
    \/ removeSwiftFile_Lock(p)

\* a caller executes the next statement of its verb, or its backend call
\* returns
Proceed(p) ==
    \/ addSwiftFile_Store(p)
    \/ addSwiftFile_Unlock(p)
    \/ getSwiftFile_Lookup(p)
    \/ getSwiftFile_Unlock(p)
    \/ removeSwiftFile_Delete(p)
    \/ removeSwiftFile_Unlock(p)
    \/ OpenInvoke(p)
    \/ OpenHandlerReturn(p)
    \/ OpenNativeReturn(p)
    \/ OpenCleanupReturn(p)
    \/ CloseHandlerReturn(p)
    \/ CloseNativeReturn(p)
    \/ IoReturn(p)

NextConc ==
    \/ \E x \in Handlers \cup {NoHandler} : Install(x)
    \/ \E p \in Callers : Call(p)
    \/ \E p \in Callers : Acquire(p)
    \/ \E p \in Callers : Proceed(p)

ConcSpec == Init /\ [][NextConc]_vars

\* every statement is eventually executed and every backend call returns;
\* a caller waiting in mapMutex.Lock() is not overtaken forever (sync.Mutex
\* hands the mutex to a waiter that has waited for more than 1ms)
FairSpec ==
    /\ ConcSpec
    /\ \A p \in Callers : WF_vars(Proceed(p))
    /\ \A p \in Callers : SF_vars(Acquire(p))

(***************************************************************************)
(* Vocabulary of the properties of concurrent callers.                     *)
(***************************************************************************)
InBackendCall(p) == callers[p].pc \in BackendPcs
Waiting(p)       == callers[p].pc \in LockPcs
InVerb(p)        == callers[p].pc # "idle"

\* the record under which the file of p is tracked is the one p looked up
HasItsRecord(p) ==
    LET key == Fd(files[callers[p].h])
    IN  /\ getSwiftFile(swiftFileMap, key)
        /\ swiftFileMap[key].swiftFD = callers[p].swiftFD

(***************************************************************************)
(* C13.  While the handler's Close of the remote descriptor of f is in     *)
(* progress in Close(f), the record of f has already been removed.         *)
(* Violated: Close calls fileSystemHandler.Close first and removeSwiftFile *)
(* after it has returned.                                                  *)
(***************************************************************************)
C13_RecordRemovedBeforeHandlerClose ==
    \A p \in Callers :
        callers[p].pc = "Close_handler" => ~HasItsRecord(p)

(***************************************************************************)
(* C16.  A caller that is at the insert, the lookup or the delete of       *)
(* swiftFileMap, or has done it and not yet unlocked, holds mapMutex: no   *)
(* two callers access the map at the same time, and every access is one    *)
(* step made inside the critical section.                                  *)
(***************************************************************************)
C16_MapAccessUnderMutex ==
    /\ \A p \in Callers :
          callers[p].pc \in AccessPcs \cup UnlockPcs => mapMutex = p
    /\ Cardinality({p \in Callers :
                       callers[p].pc \in AccessPcs \cup UnlockPcs}) <= 1

C16_Witness ==
    \E p, q \in Callers :
        /\ callers[p].pc = "removeSwiftFile_Delete"
        /\ callers[q].pc = "addSwiftFile_Lock"

(***************************************************************************)
(* C17.  A caller whose handler call or native call is in progress does    *)
(* not hold mapMutex, so a caller waiting for the mutex is never waiting   *)
(* for a backend call of another caller to return.  (f.Fd(), which the     *)
(* accessors evaluate inside the critical section, reads the descriptor    *)
(* number and performs no I/O.)                                            *)
(***************************************************************************)
C17_NoBackendCallUnderMutex ==
    /\ \A p \in Callers : InBackendCall(p) => mapMutex # p
    /\ \A p \in Callers :
          (Waiting(p) /\ mapMutex # NoCaller) => ~InBackendCall(mapMutex)

C17_Witness ==
    \E p, q \in Callers :
        /\ callers[q].pc = "Close_handler"
        /\ callers[p].pc = "getSwiftFile_Lookup"
        /\ callers[p].h # callers[q].h

(***************************************************************************)
(* C18.  A caller that is not in a verb does not hold mapMutex; the holder *)
(* of the mutex can always execute its next statement; and, when every     *)
(* backend call returns and a waiting caller is not overtaken forever,     *)
(* every caller waiting for the mutex acquires it and every verb returns.  *)
(***************************************************************************)
C18_VerbsComplete ==
    /\ [](\A p \in Callers : ~InVerb(p) => mapMutex # p)
    /\ [](mapMutex # NoCaller
            => callers[mapMutex].pc \in AccessPcs \cup UnlockPcs)
    /\ \A p \in Callers : Waiting(p) ~> (mapMutex = p)
    /\ \A p \in Callers : InVerb(p) ~> ~InVerb(p)

C18_Witness ==
    \E p, q \in Callers :
        /\ Waiting(p)
        /\ mapMutex = q
        /\ callers[q].pc = "removeSwiftFile_Unlock"
        /\ callers[q].err # Nil

(***************************************************************************)
(* C14.  An open made while a handler is installed calls the handler's     *)
(* open first; it calls the native open only after the handler's open has  *)
(* succeeded; and it inserts a record exactly when both have succeeded,    *)
(* under the descriptor number of the new file, holding the descriptor the *)
(* handler returned and the path of the file.                              *)
(***************************************************************************)
C14_OpenOrder ==
    [][(Idle /\ fileSystemHandler # NoHandler /\ last'.op \in OpenOps)
        => LET cs   == last'.calls
               both == /\ Len(cs) = 2
                       /\ cs[1].err = Nil
                       /\ cs[2].to = "native" /\ cs[2].err = Nil
           IN  /\ cs[1].to = "handler"
               /\ cs[1].verb = last'.op
               /\ \A i \in 2 .. Len(cs) :
                     (cs[i].to = "native" /\ cs[i].verb # "Close")
                        => i = 2 /\ cs[1].err = Nil
               /\ swiftFileMap' # swiftFileMap => both
               /\ both
                    => /\ last'.h \in HandleIds
                       /\ files'[last'.h].sysfd = cs[2].fd
                       /\ swiftFileMap' =
                             [k \in DOMAIN swiftFileMap \cup {cs[2].fd} |->
                                 IF k = cs[2].fd
                                 THEN [file |-> last'.h, swiftFD |-> cs[1].fd,
                                       name |-> files'[last'.h].name]
                                 ELSE swiftFileMap[k]]]_vars

C14_Witness ==
    /\ RanWithHandler
    /\ last.op = "CreateTemp"
    /\ last.err = Nil
    /\ last.h \in HandleIds
    /\ getSwiftFile(swiftFileMap, files[last.h].sysfd)
    /\ swiftFileMap[files[last.h].sysfd].name \in TempNames
    /\ swiftFileMap[files[last.h].sysfd].swiftFD # files[last.h].sysfd

(***************************************************************************)
(* C15.  Handles that are open at the same time have different descriptor  *)
(* numbers, which are the keys of their records; an open never overwrites  *)
(* the record of a handle that is still open; and, in every step in which  *)
(* the handler issues a descriptor that no record holds, records that had  *)
(* pairwise different remote descriptors keep them pairwise different, so  *)
(* that with a handler that never issues a descriptor that is still open   *)
(* no two open handles have the same remote descriptor.                    *)
(***************************************************************************)
OpenHandles == {h \in HandleIds : files[h].st = "open"}

\* the remote descriptors held by records
RecordedFds == {swiftFileMap[k].swiftFD : k \in DOMAIN swiftFileMap}

DistinctRemoteFds ==
    \A j, k \in DOMAIN swiftFileMap :
        j # k => swiftFileMap[j].swiftFD # swiftFileMap[k].swiftFD

\* the handler's open in the step, if there is one, returns a descriptor
\* that no record holds
IssuesFreshFd ==
    (last'.op \in OpenOps /\ Len(last'.calls) >= 1
        /\ last'.calls[1].to = "handler" /\ last'.calls[1].err = Nil)
      => last'.calls[1].fd \notin RecordedFds

C15_UniqueDescriptors ==
    /\ [](\A g, h \in OpenHandles : g # h => files[g].sysfd # files[h].sysfd)
    /\ [](DistinctRemoteFds
            => \A g, h \in OpenHandles :
                  (g # h /\ getSwiftFile(swiftFileMap, files[g].sysfd)
                         /\ getSwiftFile(swiftFileMap, files[h].sysfd))
                    => swiftFileMap[files[g].sysfd].swiftFD
                         # swiftFileMap[files[h].sysfd].swiftFD)
    /\ [][(Idle /\ last'.op \in OpenOps)
            => \A h \in OpenHandles :
                  getSwiftFile(swiftFileMap, files[h].sysfd)
                    => /\ getSwiftFile(swiftFileMap', files[h].sysfd)
                       /\ swiftFileMap'[files[h].sysfd]
                            = swiftFileMap[files[h].sysfd]]_vars
    /\ [][(DistinctRemoteFds /\ IssuesFreshFd) => DistinctRemoteFds']_vars

C15_Witness ==
    /\ last.op \in OpenOps
    /\ last.err = Nil
    /\ Cardinality(OpenHandles) = 2
    /\ Cardinality(DOMAIN swiftFileMap) = 2
    /\ DistinctRemoteFds

(***************************************************************************)
(* Stat and ReadDir.                                                       *)
(*                                                                         *)
(* The handler returns a FileInfo{Name, Size, Mode, ModTime, IsDir} or a   *)
(* list of DirEntry{Name, IsDir}; Stat converts the former into a          *)
(* *fileInfo and ReadDir the latter into a list of *dirEntry.  The values  *)
(* the handler returns are drawn from small sets.                          *)
(***************************************************************************)
MaxEntries == 2     \* entries of a directory the handler lists

Names    == {"a", "b"}
Sizes    == {0, 1}
Modes    == {420, 493, 16877}        \* 0644, 0755, 040755
ModTimes == {0, 1, 1700000000}       \* seconds since the Unix epoch

FileInfos == [Name : Names, Size : Sizes, Mode : Modes, ModTime : ModTimes,
              IsDir : BOOLEAN]
DirEntries == [Name : Names, IsDir : BOOLEAN]
Listings == UNION {[1 .. n -> DirEntries] : n \in 0 .. MaxEntries}

\* time.Unix(sec, nsec): the Time sec seconds and nsec nanoseconds after
\* the epoch, nsec normalised into [0, 999999999]
timeUnix(sec, nsec) ==
    [sec |-> sec + nsec \div 1000000000, nsec |-> nsec % 1000000000]

\* Time.Unix(): the seconds since the epoch
Unix(t) == t.sec

\* FileMode.Perm(): the permission bits
Perm(mode) == mode % 512

\* a conversion that takes ModTime for milliseconds
fileInfoMillis(fi) ==
    [name |-> fi.Name, size |-> fi.Size, mode |-> fi.Mode,
     modTime |-> timeUnix(fi.ModTime \div 1000, (fi.ModTime % 1000) * 1000000),
     isDir |-> fi.IsDir]

\* the *fileInfo Stat builds from the handler's FileInfo
fileInfo(fi) ==
    [name |-> fi.Name, size |-> fi.Size, mode |-> fi.Mode,
     modTime |-> timeUnix(fi.ModTime, 0), isDir |-> fi.IsDir]

\* the *dirEntry ReadDir builds from a DirEntry of the handler
dirEntry(entry) == [name |-> entry.Name, isDir |-> entry.IsDir]

\* the list ReadDir builds: result[i] from entries[i]
dirEntries(entries) == [i \in 1 .. Len(entries) |-> dirEntry(entries[i])]

\* the value a native os.Stat or os.ReadDir returns, which the verb passes on
NativeValue == "native"
NoValue     == "nil"

\* the results of Stat and ReadDir: what the backend returned (got) and
\* what the verb returns (value)
MetaResult(op, calls, err, got, value) ==
    [op |-> op, calls |-> calls, err |-> err, got |-> got, value |-> value]

Stat ==
    /\ Idle
    /\ UNCHANGED seqFrame
    /\ IF fileSystemHandler # NoHandler
       THEN \/ \E herr \in HandlerErrs :
                 last' = MetaResult("Stat",
                            <<HCall(fileSystemHandler, "Stat", 0, herr)>>,
                            herr, NoValue, NoValue)
            \/ \E fi \in FileInfos :
                 last' = MetaResult("Stat",
                            <<HCall(fileSystemHandler, "Stat", 0, Nil)>>,
                            Nil, fi, fileInfo(fi))
       ELSE \/ \E nerr \in NativeErrs :
                 last' = MetaResult("Stat", <<NCall("Stat", InvalidFd, nerr)>>,
                            nerr, NoValue, NoValue)
            \/ last' = MetaResult("Stat", <<NCall("Stat", InvalidFd, Nil)>>,
                          Nil, NativeValue, NativeValue)
    /\ UNCHANGED <<fileSystemHandler, swiftFileMap, files>>

ReadDir ==
    /\ Idle
    /\ UNCHANGED seqFrame
    /\ IF fileSystemHandler # NoHandler
       THEN \/ \E herr \in HandlerErrs :
                 last' = MetaResult("ReadDir",
                            <<HCall(fileSystemHandler, "ReadDir", 0, herr)>>,
                            herr, NoValue, NoValue)
            \/ \E entries \in Listings :
                 last' = MetaResult("ReadDir",
                            <<HCall(fileSystemHandler, "ReadDir", 0, Nil)>>,
                            Nil, entries, dirEntries(entries))
       ELSE \/ \E nerr \in NativeErrs :
                 last' = MetaResult("ReadDir",
                            <<NCall("ReadDir", InvalidFd, nerr)>>,
                            nerr, NoValue, NoValue)
            \/ last' = MetaResult("ReadDir",
                          <<NCall("ReadDir", InvalidFd, Nil)>>,
                          Nil, NativeValue, NativeValue)
    /\ UNCHANGED <<fileSystemHandler, swiftFileMap, files>>

NextMeta ==
    \/ \E x \in Handlers \cup {NoHandler} : SetFileSystemHandler(x)
    \/ Stat
    \/ ReadDir
    \/ Return

MetaSpec == Init /\ [][NextMeta]_vars

(***************************************************************************)
(* C19.  With a handler installed, Stat returns a value with the name, the *)
(* size, the permission bits and the is-directory flag of the handler's    *)
(* FileInfo and with the modification time ModTime seconds and no          *)
(* nanoseconds after the epoch; ReadDir returns as many entries as the     *)
(* handler, the i-th with the name and the is-directory flag of the        *)
(* handler's i-th; when the handler returns an error, both return no value *)
(* and that error.                                                         *)
(***************************************************************************)
HandlerMeta ==
    /\ last.op \in {"Stat", "ReadDir"}
    /\ last.calls[1].to = "handler"

C19_MetadataTranslated ==
    HandlerMeta
        => /\ Len(last.calls) = 1
           /\ last.calls[1].verb = last.op
           /\ last.err = last.calls[1].err
           /\ last.err # Nil => last.value = NoValue
           /\ (last.op = "Stat" /\ last.err = Nil)
                => /\ last.value.name = last.got.Name
                   /\ last.value.size = last.got.Size
                   /\ Perm(last.value.mode) = Perm(last.got.Mode)
                   /\ last.value.isDir = last.got.IsDir
                   /\ Unix(last.value.modTime) = last.got.ModTime
                   /\ last.value.modTime.nsec = 0
           /\ (last.op = "ReadDir" /\ last.err = Nil)
                => /\ Len(last.value) = Len(last.got)
                   /\ \A i \in 1 .. Len(last.got) :
                         /\ last.value[i].name = last.got[i].Name
                         /\ last.value[i].isDir = last.got[i].IsDir

C19_Witness ==
    /\ HandlerMeta
    /\ last.op = "Stat"
    /\ last.err = Nil
    /\ last.got.ModTime = 1700000000
    /\ last.got.Mode = 16877
    /\ last.value.isDir

(***************************************************************************)
(* C20.  After SetWriteFileCallback has been called the WriteFile callback *)
(* is set, and WriteFile calls it and not os.WriteFile.                    *)
(* Violated: SetWriteFileCallback assigns nothing; it calls the callback,  *)
(* or returns os.ErrInvalid when there is none, and WriteFile goes on      *)
(* calling os.WriteFile.                                                   *)
(***************************************************************************)
C20_SetterInstallsCallback ==
    /\ last.op = "SetWriteFileCallback" => writeFileCallback # NilCallback
    /\ (last.op = "CallbackWriteFile" /\ writeFileCallback # NilCallback)
          => /\ Len(last.calls) = 1
             /\ last.calls[1].to = "handler"
             /\ last.calls[1].hid = writeFileCallback

(***************************************************************************)
(* Vocabulary: the steps in which a caller invokes a handler method.       *)
(***************************************************************************)
\* p invokes fileSystemHandler.Close(wf.swiftFD) in this step
InvokesHandlerClose(p) ==
    callers[p].pc # "Close_handler" /\ callers'[p].pc = "Close_handler"

\* p invokes the handler's I/O method with wf.swiftFD in this step
InvokesHandlerIo(p) ==
    callers[p].pc # "Io_handler" /\ callers'[p].pc = "Io_handler"

\* the record p found is the one made for the file p passed
FoundOwnRecord(p) == callers'[p].ok /\ callers'[p].file = callers'[p].h

(***************************************************************************)
(* C21.  Whenever Close(f) invokes the handler's Close with the remote     *)
(* descriptor of f, the handler's Close has not been invoked with that     *)
(* descriptor before, however the Close calls on f are interleaved.        *)
(* Violated: two Close(f) calls both look the record up before either      *)
(* removes it, and both invoke the handler's Close with its descriptor.    *)
(***************************************************************************)
C21_HandlerCloseAtMostOnce ==
    [][\A p \in Callers :
          (InvokesHandlerClose(p) /\ FoundOwnRecord(p))
             => files[callers'[p].h].remote = "open"]_vars

(***************************************************************************)
(* C22.  Whenever a verb on f (Write stands for Read, Write, WriteAt, Seek *)
(* and Sync) invokes the handler with the remote descriptor of f, the      *)
(* handler's Close has not been invoked with that descriptor, however the  *)
(* verb and a Close(f) are interleaved.                                    *)
(* Violated: the verb looks the record up, a concurrent Close(f) invokes   *)
(* the handler's Close, and the verb then invokes the handler with the     *)
(* descriptor it had looked up.                                            *)
(***************************************************************************)
C22_NoIoAfterHandlerClose ==
    [][\A p \in Callers :
          (InvokesHandlerIo(p) /\ FoundOwnRecord(p))
             => files'[callers'[p].h].remote = "open"]_vars

(***************************************************************************)
(* The variants whose handle carries its own descriptor.                   *)
(*                                                                         *)
(* wrappedFile{*os.File, swiftFD, name} (src/esfo.go lines 386-773): the   *)
(* opens are those of the swiftFileMap variant, with swiftFDMap and        *)
(* nameMap in the place of swiftFileMap, and return the wrappedFile; its   *)
(* methods read f.swiftFD.  File{fd, name, file} (src/unnamed/part_000):   *)
(* the opens call the handler only and return a File whose file field is   *)
(* nil; its methods read f.fd.  In files, a wrappedFile is the entry of    *)
(* its embedded *os.File and keeps rfd when closed; a File has st "nil".   *)
(***************************************************************************)
\* the File an open of part_000 returns
NewFile(name, under, fd) ==
    [st |-> "nil", sysfd |-> InvalidFd, name |-> name, under |-> under,
     rfd |-> fd, closes |-> 0, remote |-> "open"]

IsWrappedFile(f) == f.st \in {"open", "closed"} /\ f.under # NoHandler
IsFile(f)        == f.st = "nil"

\* the wrappedFile after its Close; native: whether f.File.Close() ran
wrappedClosed(f, native) ==
    IF native
    THEN [f EXCEPT !.st = "closed", !.sysfd = InvalidFd, !.closes = 1]
    ELSE [f EXCEPT !.closes = 1]

\* OpenFile of the wrappedFile variant, with a handler installed
wrappedFile_OpenFile(name) == HandlerOpen("OpenFile", "OpenFile", name)

\* (f *wrappedFile).Write: the handler with f.swiftFD whenever a handler is
\* installed, f.File.Write otherwise
wrappedFile_Write(h) ==
    /\ Idle
    /\ UNCHANGED seqFrame
    /\ IsWrappedFile(files[h])
    /\ LET f == files[h]
       IN  \E e \in {Nil} \cup (IF fileSystemHandler # NoHandler
                                THEN HandlerErrs ELSE NativeErrs) :
             LET c == IF fileSystemHandler # NoHandler
                      THEN HCall(fileSystemHandler, "Write", f.rfd, e)
                      ELSE NCall("Write", Fd(f), NativeErr(f, e))
             IN  last' = Result("wrappedFile.Write", h, f,
                           getSwiftFile(swiftFileMap, Fd(f)), <<c>>, c.err)
    /\ UNCHANGED <<fileSystemHandler, swiftFileMap, files>>

\* (f *wrappedFile).Close: with a handler installed the entries under
\* f.Fd() are deleted, the handler's Close is called with f.swiftFD and its
\* error, if any, returned; then f.File.Close()
wrappedFile_Close(h) ==
    /\ Idle
    /\ UNCHANGED seqFrame
    /\ IsWrappedFile(files[h])
    /\ LET f   == files[h]
           trk == getSwiftFile(swiftFileMap, Fd(f))
       IN  \E hcerr \in {Nil} \cup HandlerErrs, ncerr \in {Nil} \cup NativeErrs :
             LET nc == NCall("Close", Fd(f), NativeErr(f, ncerr))
                 hc == HCall(fileSystemHandler, "Close", f.rfd, hcerr)
             IN  IF fileSystemHandler # NoHandler
                 THEN /\ swiftFileMap' = removeSwiftFile(swiftFileMap, Fd(f))
                      /\ IF hcerr # Nil
                         THEN /\ ncerr = Nil
                              /\ files' = [RemoteClosed(files, h) EXCEPT
                                              ![h] = wrappedClosed(@, FALSE)]
                              /\ last' = Result("wrappedFile.Close", h, f, trk,
                                            <<hc>>, hcerr)
                         ELSE /\ files' = [RemoteClosed(files, h) EXCEPT
                                              ![h] = wrappedClosed(@, TRUE)]
                              /\ last' = Result("wrappedFile.Close", h, f, trk,
                                            <<hc, nc>>, nc.err)
                 ELSE /\ hcerr = Nil
                      /\ files' = [files EXCEPT ![h] = wrappedClosed(@, TRUE)]
                      /\ last' = Result("wrappedFile.Close", h, f, trk,
                                    <<nc>>, nc.err)
                      /\ UNCHANGED swiftFileMap
    /\ UNCHANGED fileSystemHandler

\* OpenFile of the File variant, with a handler installed: the handler's
\* open, and a File with the descriptor it returned
File_OpenFile(name) ==
    /\ Idle
    /\ UNCHANGED seqFrame
    /\ fileSystemHandler # NoHandler
    /\ \/ \E herr \in HandlerErrs :
            /\ last' = Result("OpenFile", 0, UnusedFile, FALSE,
                          OpenHandlerFailCalls(fileSystemHandler, "OpenFile",
                                               herr), herr)
            /\ UNCHANGED files
       \/ /\ UnusedHandles # {}
          /\ \E fd \in RemoteFds :
               /\ files' = [files EXCEPT ![NewHandle] =
                               NewFile(name, fileSystemHandler, fd)]
               /\ last' = Result("OpenFile", NewHandle, UnusedFile, FALSE,
                             <<HCall(fileSystemHandler, "OpenFile", fd, Nil)>>,
                             Nil)
    /\ UNCHANGED <<fileSystemHandler, swiftFileMap>>

\* the backend calls of a File method when no handler is installed and
\* f.file is nil: the file f.name is opened, the method called on it and
\* the file closed
FileFallbackCalls(verb, nerr, verr) ==
    IF nerr # Nil
    THEN <<NCall("OpenFile", InvalidFd, nerr)>>
    ELSE IF verb = "Close"
         THEN <<NCall("OpenFile", InvalidFd, Nil), NCall("Close", InvalidFd, verr)>>
         ELSE <<NCall("OpenFile", InvalidFd, Nil), NCall(verb, InvalidFd, verr),
                NCall("Close", InvalidFd, Nil)>>

\* (f *File).Write: the handler with f.fd whenever a handler is installed
File_Write(h) ==
    /\ Idle
    /\ UNCHANGED seqFrame
    /\ IsFile(files[h])
    /\ LET f == files[h]
       IN  IF fileSystemHandler # NoHandler
           THEN \E e \in {Nil} \cup HandlerErrs :
                   last' = Result("File.Write", h, f, FALSE,
                              <<HCall(fileSystemHandler, "Write", f.rfd, e)>>, e)
           ELSE \E nerr, verr \in {Nil} \cup NativeErrs :
                   /\ nerr # Nil => verr = Nil
                   /\ last' = Result("File.Write", h, f, FALSE,
                                 FileFallbackCalls("Write", nerr, verr),
                                 IF nerr # Nil THEN nerr ELSE verr)
    /\ UNCHANGED <<fileSystemHandler, swiftFileMap, files>>

\* (f *File).Close: the handler's Close with f.fd whenever a handler is
\* installed
File_Close(h) ==
    /\ Idle
    /\ UNCHANGED seqFrame
    /\ IsFile(files[h])
    /\ LET f == files[h]
       IN  IF fileSystemHandler # NoHandler
           THEN \E e \in {Nil} \cup HandlerErrs :
                   /\ last' = Result("File.Close", h, f, FALSE,
                                 <<HCall(fileSystemHandler, "Close", f.rfd, e)>>, e)
                   /\ files' = [RemoteClosed(files, h) EXCEPT ![h].closes = 1]
           ELSE \E nerr, verr \in {Nil} \cup NativeErrs :
                   /\ nerr # Nil => verr = Nil
                   /\ last' = Result("File.Close", h, f, FALSE,
                                 FileFallbackCalls("Close", nerr, verr),
                                 IF nerr # Nil THEN nerr ELSE verr)
                   /\ files' = [files EXCEPT ![h].closes = 1]
    /\ UNCHANGED <<fileSystemHandler, swiftFileMap>>

NextCarry ==
    \/ \E x \in Handlers \cup {NoHandler} : SetFileSystemHandler(x)
    \/ \E name \in Paths : wrappedFile_OpenFile(name)
    \/ \E h \in HandleIds : wrappedFile_Write(h)
    \/ \E h \in HandleIds : wrappedFile_Close(h)
    \/ \E name \in Paths : File_OpenFile(name)
    \/ \E h \in HandleIds : File_Write(h)
    \/ \E h \in HandleIds : File_Close(h)
    \/ Return

CarrySpec == Init /\ [][NextCarry]_vars

(***************************************************************************)
(* C23.  Once Close has returned on a wrappedFile or a File, no later      *)
(* Write or Close on it (Write stands for Read, WriteAt, Seek and Sync)    *)
(* calls the handler with the remote descriptor of that handle.            *)
(* Violated: the methods test fileSystemHandler only; with a handler       *)
(* installed they call it with f.swiftFD or f.fd on a closed handle too.   *)
(***************************************************************************)
CarryOps == {"wrappedFile.Write", "wrappedFile.Close", "File.Write", "File.Close"}

C23_NoHandlerCallAfterClose ==
    [][(Idle /\ last'.op \in CarryOps /\ files[last'.h].closes = 1)
         => \A i \in 1 .. Len(last'.calls) :
               ~(last'.calls[i].to = "handler"
                   /\ last'.calls[i].fd = files[last'.h].rfd)]_vars

(***************************************************************************)
(* C24.  No Read, Write, WriteAt, Seek, Sync, Close or Name on a handle    *)
(* that was opened while no handler was installed calls the handler or     *)
(* finds a record under its descriptor number while a handler is           *)
(* installed.                                                              *)
(* Violated: a handle closed while no handler is installed leaves its      *)
(* record behind; a handle opened natively afterwards gets the same        *)
(* descriptor number, and once a handler is installed again the verbs find *)
(* the record of the earlier handle and call the handler with its          *)
(* descriptor.                                                             *)
(***************************************************************************)
C24_NativeHandleNeverRouted ==
    (last.op \in HandleOps \cup {"Name"} /\ OpenNatively(last.pre))
        => /\ HandlerCalls = {}
           /\ ~(fileSystemHandler # NoHandler /\ last.tracked)

(***************************************************************************)
(* C25.  With a handler installed, while the native close of f is in       *)
(* progress in Close(f) the map has no entry under the descriptor number   *)
(* of f.  No entry is inserted while no handler is installed, and no step  *)
(* taken while a handler is installed leaves an entry under a number whose *)
(* file is not open: so, while the handler stays installed, every entry is *)
(* the record of the open file that has its key as descriptor number, a    *)
(* lookup finds only the record made for the file it is called on, and an  *)
(* insert never replaces an entry, however opens and closes interleave.    *)
(***************************************************************************)
\* every entry is the record of the open file with that descriptor number
NoStaleRecord ==
    \A k \in DOMAIN swiftFileMap :
        /\ files[swiftFileMap[k].file].st = "open"
        /\ files[swiftFileMap[k].file].sysfd = k

C25_EntryRemovedBeforeReuse ==
    /\ [](\A p \in Callers :
            (callers[p].pc = "Close_native" /\ fileSystemHandler # NoHandler)
               => ~getSwiftFile(swiftFileMap, Fd(files[callers[p].h])))
    /\ [][fileSystemHandler = NoHandler
            => DOMAIN swiftFileMap' \subseteq DOMAIN swiftFileMap]_vars
    /\ [][(fileSystemHandler # NoHandler /\ NoStaleRecord)
            => NoStaleRecord']_vars
    /\ [][\A p \in Callers :
            (NoStaleRecord /\ callers[p].pc = "getSwiftFile_Lookup"
                /\ callers'[p].pc = "getSwiftFile_Unlock" /\ callers'[p].ok)
               => callers'[p].file = callers'[p].h]_vars
    /\ [][\A p \in Callers :
            (NoStaleRecord /\ callers[p].pc = "addSwiftFile_Store"
                /\ callers'[p].pc = "addSwiftFile_Unlock")
               => ~getSwiftFile(swiftFileMap, Fd(files[callers[p].h]))]_vars

\* the first file was opened with a handler installed and closed through the
\* handler; the second was opened later, has the descriptor number the
\* first had, and a lookup on it has found the record made for it
C25_Witness ==
    /\ fileSystemHandler # NoHandler
    /\ NoStaleRecord
    /\ files[1].st = "closed" /\ files[1].remote = "closed"
    /\ files[2].st = "open" /\ files[2].sysfd = 1
    /\ getSwiftFile(swiftFileMap, 1) /\ swiftFileMap[1].file = 2
    /\ \E p \in Callers :
          /\ callers[p].pc = "getSwiftFile_Unlock"
          /\ callers[p].h = 2
          /\ callers[p].ok

(***************************************************************************)
(* C26.  When Close(f) returns, with nil or with an error, the native file *)
(* of f is closed.                                                         *)
(* Violated: when the handler's Close returns an error, Close(f) returns   *)
(* it without calling f.Close().                                           *)
(***************************************************************************)
C26_CloseClosesNativeFile ==
    last.op = "Close" => files[last.h].st = "closed"

(***************************************************************************)
(* C27.  Whenever no verb is in progress, every remote descriptor that was *)
(* issued for a file and has not been passed to the handler's Close is     *)
(* held by the record of that file, and the file is open; and a descriptor *)
(* issued in an open that returns no file is passed to the handler's Close *)
(* in that open.                                                           *)
(* Violated: a Close made while no handler is installed closes the native  *)
(* file and leaves the remote descriptor open.                             *)
(***************************************************************************)
\* the remote descriptor issued for file h is open and only the handler
\* knows it
Leaked(h) ==
    /\ files[h].remote = "open"
    /\ ~(/\ files[h].st = "open"
         /\ getSwiftFile(swiftFileMap, files[h].sysfd)
         /\ swiftFileMap[files[h].sysfd].file = h
         /\ swiftFileMap[files[h].sysfd].swiftFD = files[h].rfd)

C27_NoDescriptorLeak ==
    /\ [](Idle => \A h \in HandleIds : ~Leaked(h))
    /\ [][(Idle /\ last'.op \in OpenOps /\ last'.h = 0)
            => \A i \in 1 .. Len(last'.calls) :
                  (last'.calls[i].to = "handler" /\ last'.calls[i].verb # "Close"
                     /\ last'.calls[i].err = Nil)
                    => \E j \in i + 1 .. Len(last'.calls) :
                          /\ last'.calls[j].to = "handler"
                          /\ last'.calls[j].verb = "Close"
                          /\ last'.calls[j].fd = last'.calls[i].fd]_vars

(***************************************************************************)
(* C28.  An open that returns an error returns no file and leaves          *)
(* swiftFileMap and every file as they were.  When the handler's open      *)
(* returned the error, that call is the only backend call: no native open  *)
(* and no handler Close.  When the native open failed after the handler's  *)
(* open, no record was inserted.                                           *)
(***************************************************************************)
C28_FailedOpenFrame ==
    [][(Idle /\ last'.op \in OpenOps /\ last'.err # Nil)
         => /\ swiftFileMap' = swiftFileMap
            /\ files' = files
            /\ last'.h = 0
            /\ (last'.calls[1].to = "handler" /\ last'.calls[1].err # Nil)
                  => /\ Len(last'.calls) = 1
                     /\ last'.err = last'.calls[1].err
            /\ (last'.calls[1].to = "handler" /\ last'.calls[1].err = Nil)
                  => /\ last'.calls[2].to = "native"
                     /\ last'.calls[2].err = last'.err]_vars

\* the native open failed after the handler's open, with a record of
\* another file in the map
C28_Witness ==
    /\ NativeOpenFailed
    /\ last.err \in NativeErrs
    /\ \E h \in HandleIds :
          /\ files[h].st = "open"
          /\ getSwiftFile(swiftFileMap, files[h].sysfd)
          /\ swiftFileMap[files[h].sysfd].file = h

(***************************************************************************)
(* C29.  A verb called on a file, or an open that returns a file, leaves   *)
(* every record that was made for another file in the map as it was; an    *)
(* open adds no key but that of the new file, Close removes no key but     *)
(* that of its file, and Read, Write, WriteAt, Seek, Sync and Name leave   *)
(* the map as it was.                                                      *)
(* Violated: the record of a file closed while no handler was installed    *)
(* stays under its descriptor number; an open that gets that number        *)
(* replaces it, and Close on a file that got that number deletes it.       *)
(***************************************************************************)
C29_OtherRecordsUnchanged ==
    [][(Idle /\ last'.op \in OpenOps \cup HandleOps \cup {"Name"})
         => /\ \A k \in DOMAIN swiftFileMap :
                  swiftFileMap[k].file # last'.h
                    => /\ getSwiftFile(swiftFileMap', k)
                       /\ swiftFileMap'[k] = swiftFileMap[k]
            /\ last'.op \in OpenOps
                 => \A k \in DOMAIN swiftFileMap' \ DOMAIN swiftFileMap :
                       swiftFileMap'[k].file = last'.h
            /\ last'.op = "Close"
                 => DOMAIN swiftFileMap \ DOMAIN swiftFileMap'
                       \subseteq {Fd(files[last'.h])}
            /\ last'.op \in IoOps \cup {"Name"}
                 => swiftFileMap' = swiftFileMap]_vars

(***************************************************************************)
(* SetFileSystemHandler called concurrently with the verbs.                *)
(*                                                                         *)
(* fileSystemHandler is a plain package variable (src/esfo.go line 168):   *)
(* SetFileSystemHandler assigns it without synchronisation, at any moment  *)
(* between the statements of the verbs of other goroutines.  A caller that *)
(* has called a method of a nil handler has panicked, and the program with *)
(* it.                                                                     *)
(***************************************************************************)
SetHandlerConcurrently(handler) ==
    /\ ~Panicked
    /\ fileSystemHandler # handler
    /\ fileSystemHandler' = handler
    /\ UNCHANGED <<swiftFileMap, files, mapMutex, callers, concFrame>>

NextRace ==
    \/ NextConc
    \/ \E x \in Handlers \cup {NoHandler} : SetHandlerConcurrently(x)

RaceSpec == Init /\ [][NextRace]_vars

(***************************************************************************)
(* C30.  No caller calls a method of a nil fileSystemHandler: a verb that  *)
(* found a handler installed finds the same handler at each of its handler *)
(* calls, however SetFileSystemHandler is interleaved with it.             *)
(* Violated: the verb reads fileSystemHandler once for the test and again  *)
(* for the call; a SetFileSystemHandler(nil) in between makes the call a   *)
(* method call on a nil interface value.                                   *)
(***************************************************************************)
C30_NoNilHandlerCall ==
    \A p \in Callers :
        /\ callers[p].pc # "panic"
        /\ callers[p].pc \in {"Open_handler", "Open_cleanup", "Close_handler",
                              "Io_handler"}
              => callers[p].handler # NoHandler

(***************************************************************************)
(* C31.  Name(f) returns the name f was opened with: when a handler is     *)
(* installed and f has a record, Name returns the name in the record,      *)
(* which is the name f was opened with (the name passed to OpenFile or     *)
(* Create, the filename the handler returned to CreateTemp); otherwise     *)
(* Name returns the name of the native file.                               *)
(* Violated: a file opened natively under the descriptor number of a       *)
(* record left behind has that record, and Name returns the name of the    *)
(* file the record was made for.                                           *)
(***************************************************************************)
C31_NameIsRecordedPath ==
    last.op = "Name"
        => IF fileSystemHandler # NoHandler /\ last.tracked
           THEN /\ last.str = swiftFileMap[Fd(last.pre)].name
                /\ last.str = last.pre.name
           ELSE last.str = last.pre.name
=============================================================================
